---- MODULE Spec2Model ----
(***************************************************************************)
(* A model of KITTILoader.py: the two datasets myPointData and             *)
(* myImageFloder, their __getitem__ handlers, and the numeric helpers      *)
(* angle2class, size2class and rotate_pc_along_y.                          *)
(*                                                                         *)
(* Numbers.  The program computes with floats; the model computes with     *)
(* exact rationals held as integers:                                       *)
(*   - an angle is an integer number of units, HalfPi units to pi/2;       *)
(*   - angle2class works on angles scaled by 2*num_class, so that the bin  *)
(*     width 2*pi/N and the half bin pi/N are integers;                    *)
(*   - coordinates are fixed point, 1/20 of a length unit, so that the     *)
(*     factors 0.05, 0.8 and 1.2 of the random shift are exact;            *)
(*   - cos and sin are exact at the multiples of pi/2, the only rational   *)
(*     multiples of pi where both are rational, so rotation angles are     *)
(*     multiples of HalfPi.                                                *)
(***************************************************************************)
EXTENDS Integers, Sequences, FiniteSets, TLC

VARIABLES
    disk,        \* the files: path -> stored point record or image file
    pointData,   \* the myPointData object (Null when not constructed)
    imageFloder, \* the myImageFloder object (Null when not constructed)
    wk,          \* per worker: the locals of its running __getitem__ call
    call         \* one call of a pure helper: its arguments and results

vars == <<disk, pointData, imageFloder, wk, call>>

Null == <<>>

\* ---------------------------------------------------------------- bounds
HalfPi       == 6   \* angle units to a quarter turn
MaxNumClass  == 4   \* largest num_class / num_angle
MaxNumPoint  == 2   \* largest num_point
MaxMargin    == 1   \* image sizes lie within MaxMargin of the crop window
MaxCoord     == 1   \* coordinates of the points given to rotate_pc_along_y

Pi    == 2 * HalfPi
TwoPi == 4 * HalfPi

\* the worker processes that fetch items
Workers == {"w1", "w2"}

\* ------------------------------------------------------- program constants
TrainW == 512
TrainH == 256
EvalW  == 1232
EvalH  == 368

\* __box_mean, in 1/1000 (truncated)
BoxMean == <<3996, 1617, 1517>>

Min(a, b) == IF a <= b THEN a ELSE b
Max(a, b) == IF a >= b THEN a ELSE b

\* np.sqrt on the perfect squares the stored box centres produce
Sqrt(n) == CHOOSE r \in 0..n : r * r = n

\* np.clip(v, lo, hi) = minimum(hi, maximum(v, lo))
ClipNone(v, lo, hi) == v
Clip(v, lo, hi) == Min(hi, Max(v, lo))

\* np.cos / np.sin at a multiple of pi/2
Cos(theta) ==
    LET q == (theta \div HalfPi) % 4
    IN  CASE q = 0 -> 1 [] q = 1 -> 0 [] q = 2 -> -1 [] OTHER -> 0

Sin(theta) ==
    LET q == (theta \div HalfPi) % 4
    IN  CASE q = 0 -> 0 [] q = 1 -> 1 [] q = 2 -> 0 [] OTHER -> -1

\* rotate_pc_along_y with rotmat = [[c, s], [s, c]] (sign of one sine lost)
rotate_pc_symmetric(pc, rot_angle) ==
    LET cosval == Cos(rot_angle)
        sinval == Sin(rot_angle)
    IN  [i \in 1..Len(pc) |->
            [pc[i] EXCEPT ![1] = pc[i][1] * cosval + pc[i][3] * sinval,
                          ![3] = pc[i][1] * sinval + pc[i][3] * cosval]]

\* pc[:, [0, 2]] = np.dot(pc[:, [0, 2]], np.transpose(rotmat)), rows <<x, y, z, ...>>
rotate_pc_along_y(pc, rot_angle) ==
    LET cosval == Cos(rot_angle)
        sinval == Sin(rot_angle)
    IN  [i \in 1..Len(pc) |->
            [pc[i] EXCEPT ![1] = pc[i][1] * cosval - pc[i][3] * sinval,
                          ![3] = pc[i][1] * sinval + pc[i][3] * cosval]]

\* angle2class without the wrap of the shifted angle
angle2class_nowrap(angle, num_class) ==
    LET a       == (2 * num_class) * (angle % TwoPi)
        apc     == 2 * TwoPi
        shifted == a + TwoPi
        cid     == shifted \div apc
    IN  <<cid, shifted - (cid * apc + TwoPi)>>

\* angle2class without the half-bin shift: bins start at the class centres
angle2class_noshift(angle, num_class) ==
    LET a   == (2 * num_class) * (angle % TwoPi)
        apc == 2 * TwoPi
        cid == a \div apc
    IN  <<cid, a - cid * apc>>

\* angle2class(angle, num_class) = <<class_id, residual_angle>>.  Every angle
\* inside is scaled by 2*num_class: angle_per_class is 2*TwoPi, half of it
\* TwoPi, a full turn 2*num_class*TwoPi; the residual returned is the
\* residual angle times 2*num_class.
angle2class(angle, num_class) ==
    LET a       == (2 * num_class) * (angle % TwoPi)
        apc     == 2 * TwoPi
        shifted == (a + TwoPi) % ((2 * num_class) * TwoPi)
        cid     == shifted \div apc
    IN  <<cid, shifted - (cid * apc + TwoPi)>>

\* size2class(size) = size - __box_mean
size2class(size) == [k \in 1..3 |-> size[k] - BoxMean[k]]

\* =========================================================== stored files
\* points_dir + file name; the path is kept as its two parts
Path(dir, file) == [dir |-> dir, file |-> file]

\* point.split('/')[-1]
Basename(path) == path.file

PointDir == "frustum/"
PointPaths == <<Path(PointDir, "a.npy"), Path(PointDir, "b.npy"), Path(PointDir, "c.npy")>>

\* Stored point records.  A point is <<x, y, z, id>>: the fourth channel is
\* an extra channel, here a number that identifies the stored point.
\* Box centres have x*x + y*y a perfect square whose root is a multiple of 20.
RecordA ==
    [img_id |-> 7, frustum_angle |-> 0,
     point_2d |-> <<>>, label |-> <<>>,
     point_velo |-> <<>>, velo_label |-> <<>>,
     box3d_center |-> <<60, 80, 200>>, box3d_size |-> <<4000, 1600, 1500>>,
     heading |-> 1]

RecordB ==
    [img_id |-> 8, frustum_angle |-> HalfPi,
     point_2d |-> << <<20, -40, 100, 11>> >>, label |-> <<1>>,
     point_velo |-> << <<-30, 10, 50, 21>>, <<0, 5, -20, 22>> >>,
     velo_label |-> <<0, 1>>,
     box3d_center |-> <<-12, 16, 40>>, box3d_size |-> <<3500, 1700, 1400>>,
     heading |-> -(Pi + 1)]

RecordC ==
    [img_id |-> 9, frustum_angle |-> -HalfPi,
     point_2d |-> << <<7, 3, -60, 31>>, <<-7, 0, 80, 32>> >>, label |-> <<1, 0>>,
     point_velo |-> << <<15, -5, 25, 41>> >>, velo_label |-> <<1>>,
     box3d_center |-> <<0, 0, 100>>, box3d_size |-> <<4200, 1500, 1600>>,
     heading |-> TwoPi - 1]

PointDisk ==
    (PointPaths[1] :> RecordA) @@ (PointPaths[2] :> RecordB) @@ (PointPaths[3] :> RecordC)

\* np.load(path).item(): a fresh copy of the stored record
point_loader(path) == disk[path]

\* samples of np.random.randn()
Gauss == {-1, 20, 30}

\* ------------------------------------------------------------- the workers
IdleWorker ==
    [pc |-> "idle", index |-> 0, datas |-> Null, rot_angle |-> 0,
     points |-> <<>>, seg_mask |-> <<>>, choice |-> <<>>, head |-> 0,
     flipped |-> FALSE, shift |-> 0,
     left_img |-> Null, right_img |-> Null, dataL |-> Null, ret |-> Null]

\* ================================================== myPointData.__init__
InitPointData ==
    /\ disk = PointDisk
    /\ \E np \in 0..MaxNumPoint, na \in {1, MaxNumClass},
          rf \in BOOLEAN, rs \in BOOLEAN, li \in BOOLEAN :
          pointData = [points |-> PointPaths, num_point |-> np, num_angle |-> na,
                       random_flip |-> rf, random_shift |-> rs, lidar |-> li]
    /\ imageFloder = Null
    /\ wk = [w \in Workers |-> IdleWorker]
    /\ call = Null

\* =============================================== myPointData.__getitem__
\* lines 123-132: load the record, the rotation angle, the point source
Load(w, index) ==
    /\ pointData # Null
    /\ wk[w].pc = "idle"
    /\ index \in 1..Len(pointData.points)
    /\ LET datas == point_loader(pointData.points[index])
       IN  wk' = [wk EXCEPT ![w] =
                    [IdleWorker EXCEPT
                        !.pc = "loaded", !.index = index, !.datas = datas,
                        !.rot_angle = HalfPi + datas.frustum_angle,
                        !.points = IF pointData.lidar THEN datas.point_velo
                                   ELSE datas.point_2d,
                        !.seg_mask = IF pointData.lidar THEN datas.velo_label
                                     ELSE datas.label]]
    /\ UNCHANGED <<disk, pointData, imageFloder, call>>

\* np.random.choice(n, num_point, replace=True): the possible draws; none
\* (ValueError) when n = 0 and num_point > 0
Choices(n, num_point) == [1..num_point -> 1..n]

\* seg_mask[:num_point] in place of seg_mask[choice]
SampleMaskHead(seg_mask, choice) == SubSeq(seg_mask, 1, Min(Len(choice), Len(seg_mask)))

\* points[choice, :]: a new array
SampleRows(points, choice) == [j \in 1..Len(choice) |-> points[choice[j]]]

\* seg_mask[choice]
SampleMask(seg_mask, choice) == [j \in 1..Len(choice) |-> seg_mask[choice[j]]]

\* lines 135-143
Sample(w) ==
    /\ pointData # Null
    /\ wk[w].pc = "loaded"
    /\ \E choice \in Choices(Len(wk[w].points), pointData.num_point) :
          wk' = [wk EXCEPT ![w].pc = "sampled",
                           ![w].choice = choice,
                           ![w].points = SampleRows(wk[w].points, choice),
                           ![w].seg_mask = SampleMask(wk[w].seg_mask, choice),
                           ![w].head = wk[w].datas.heading]
    /\ UNCHANGED <<disk, pointData, imageFloder, call>>

\* line 135 raising ValueError: the fetch ends, the error goes to the caller
SampleFail(w) ==
    /\ pointData # Null
    /\ wk[w].pc = "loaded"
    /\ Choices(Len(wk[w].points), pointData.num_point) = {}
    /\ wk' = [wk EXCEPT ![w].pc = "error"]
    /\ UNCHANGED <<disk, pointData, imageFloder, call>>

\* points[:, 0] *= -1
FlipPoints(points) == [j \in 1..Len(points) |-> [points[j] EXCEPT ![1] = -points[j][1]]]

\* the flip leaving box3d_center as it was
FlipCenterNone(center) == center

\* box3d_center[0] *= -1
FlipCenter(center) == [center EXCEPT ![1] = -center[1]]

\* lines 146-152, the flip also landing in the stored record (a loader that
\* hands out a shared, cached record)
FlipCached(w) ==
    /\ wk[w].pc = "sampled"
    /\ \E coin \in (IF pointData.random_flip THEN BOOLEAN ELSE {FALSE}) :
          /\ wk' = [wk EXCEPT ![w].pc = "flipped", ![w].flipped = coin]
          /\ disk' = IF coin
                     THEN [disk EXCEPT ![pointData.points[wk[w].index]].box3d_center =
                                            FlipCenter(@)]
                     ELSE disk
    /\ UNCHANGED <<pointData, imageFloder, call>>

\* lines 146-152: box3d_center is datas['box3d_center'] itself, flipped in
\* place in the record this fetch loaded
Flip(w) ==
    /\ wk[w].pc = "sampled"
    /\ \E coin \in (IF pointData.random_flip THEN BOOLEAN ELSE {FALSE}) :
          wk' = IF coin
                THEN [wk EXCEPT ![w].pc = "flipped", ![w].flipped = TRUE,
                                ![w].points = FlipPoints(@),
                                ![w].datas.box3d_center = FlipCenter(@),
                                ![w].head = Pi - @]
                ELSE [wk EXCEPT ![w].pc = "flipped"]
    /\ UNCHANGED <<disk, pointData, imageFloder, call>>

\* np.sqrt(np.sum(box3d_center[0] ** 2 + box3d_center[1] ** 2))
Dist(center) == Sqrt(center[1] * center[1] + center[2] * center[2])

\* np.clip(randn * dist * 0.05, dist * 0.8, dist * 1.2)
ShiftOf(g, dist) == Clip((g * dist) \div 20, (4 * dist) \div 5, (6 * dist) \div 5)

\* points[:, 2] += shift
ShiftPoints(points, shift) ==
    [j \in 1..Len(points) |-> [points[j] EXCEPT ![3] = points[j][3] + shift]]

\* lines 154-158
Shift(w) ==
    /\ wk[w].pc = "flipped"
    /\ IF pointData.random_shift
       THEN \E g \in Gauss :
               LET shift == ShiftOf(g, Dist(wk[w].datas.box3d_center))
               IN  wk' = [wk EXCEPT ![w].pc = "shifted", ![w].shift = shift,
                                    ![w].points = ShiftPoints(@, shift),
                                    ![w].datas.box3d_center[3] = @ + shift]
       ELSE wk' = [wk EXCEPT ![w].pc = "shifted"]
    /\ UNCHANGED <<disk, pointData, imageFloder, call>>

\* lines 161-176: the returned tuple
PointItem(l, path, num_angle) ==
    LET ac == angle2class(l.head - l.rot_angle, num_angle)
    IN  [points_rot |-> rotate_pc_along_y(l.points, l.rot_angle),
         seg_mask |-> l.seg_mask,
         box3d_center_rot |-> rotate_pc_along_y(<<l.datas.box3d_center>>, l.rot_angle)[1],
         angle_c_rot |-> ac[1],
         angle_r_rot |-> ac[2],
         size_r |-> size2class(l.datas.box3d_size),
         rot_angle |-> l.rot_angle,
         img_id |-> l.datas.img_id,
         name |-> Basename(path)]

Finish(w) ==
    /\ wk[w].pc = "shifted"
    /\ wk' = [wk EXCEPT ![w].pc = "done",
                        ![w].ret = PointItem(wk[w], pointData.points[wk[w].index],
                                             pointData.num_angle)]
    /\ UNCHANGED <<disk, pointData, imageFloder, call>>

\* the caller has the item (or the error); the worker takes the next index
Release(w) ==
    /\ wk[w].pc \in {"done", "error"}
    /\ wk' = [wk EXCEPT ![w] = IdleWorker]
    /\ UNCHANGED <<disk, pointData, imageFloder, call>>

\* ========================================================= myImageFloder
\* the sample lists handed to the constructor
LeftPaths  == <<Path("image_2/", "000000_10.png"), Path("image_2/", "000001_10.png")>>
RightPaths == <<Path("image_3/", "000000_10.png"), Path("image_3/", "000001_10.png")>>
DispPaths  == <<Path("disp_occ_0/", "000000_10.png"), Path("disp_occ_0/", "000001_10.png")>>
Names      == <<"000000_10", "000001_10">>

\* an image file is its width and height; the three files of a sample have
\* the same size
ImageDisk(size1, size2) ==
    [p \in {LeftPaths[1], RightPaths[1], DispPaths[1]} |-> [w |-> size1[1], h |-> size1[2]]]
    @@ [p \in {LeftPaths[2], RightPaths[2], DispPaths[2]} |-> [w |-> size2[1], h |-> size2[2]]]

Margins == (-MaxMargin)..MaxMargin

\* myImageFloder.__init__
InitImageFloder ==
    /\ \E training \in BOOLEAN, load \in BOOLEAN, dw \in Margins, dh \in Margins :
          LET cw == IF training THEN TrainW ELSE EvalW
              ch == IF training THEN TrainH ELSE EvalH
          IN  /\ disk = ImageDisk(<<cw + dw, ch + dh>>, <<cw + MaxMargin, ch>>)
              /\ imageFloder = [left |-> LeftPaths, right |-> RightPaths,
                                disp_L |-> DispPaths, training |-> training,
                                name |-> Names, load |-> load]
    /\ pointData = Null
    /\ wk = [w \in Workers |-> IdleWorker]
    /\ call = Null

\* Image.open(path): the whole picture.  box is the window of the file's
\* pixel grid the image shows, <<left, upper, right, lower>>.
default_loader(path) ==
    [src |-> path, box |-> <<0, 0, disk[path].w, disk[path].h>>,
     size |-> <<disk[path].w, disk[path].h>>, scaled |-> FALSE, normalized |-> FALSE]

disparity_loader(path) == default_loader(path)

\* PIL Image.crop(box): the result has the size of the box, whatever part of
\* the box lies outside the image (that part is filled with zeros)
Crop(img, box) ==
    [img EXCEPT !.box = <<img.box[1] + box[1], img.box[2] + box[2],
                          img.box[1] + box[3], img.box[2] + box[4]>>,
                !.size = <<box[3] - box[1], box[4] - box[2]>>]

\* get_transform()(img): ToTensor and Normalize change the pixel values, not
\* the window or the size
Processed(img) == [img EXCEPT !.normalized = TRUE]

\* np.ascontiguousarray(dataL, dtype=np.float32) / 256
Scale256(img) == [img EXCEPT !.scaled = TRUE]

\* dataL[y1:y2, x1:x2] with 0 <= y1 <= y2, 0 <= x1 <= x2: a slice stops at
\* the array's edge
NpSlice(arr, y1, y2, x1, x2) ==
    LET xa == Min(x1, arr.size[1])
        xb == Min(x2, arr.size[1])
        ya == Min(y1, arr.size[2])
        yb == Min(y2, arr.size[2])
    IN  [arr EXCEPT !.box = <<arr.box[1] + xa, arr.box[2] + ya,
                              arr.box[1] + xb, arr.box[2] + yb>>,
                    !.size = <<xb - xa, yb - ya>>]

\* random.randint(a, b) that takes an empty range for the single value a
RandintClamped(a, b) == IF b < a THEN {a} ELSE a..b

\* random.randint(a, b): the possible draws; none (ValueError) when b < a
Randint(a, b) == a..b

\* the evaluation window anchored at the top-left corner
EvalBoxTopLeft(w, h) == <<0, 0, EvalW, EvalH>>

\* (w - 1232, h - 368, w, h)
EvalBox(w, h) == <<w - EvalW, h - EvalH, w, h>>

\* lines 196-206
ImgLoad(w, index) ==
    /\ imageFloder # Null
    /\ wk[w].pc = "idle"
    /\ index \in 1..Len(imageFloder.left)
    /\ wk' = [wk EXCEPT ![w] =
                [IdleWorker EXCEPT
                    !.pc = "loaded", !.index = index,
                    !.left_img = default_loader(imageFloder.left[index]),
                    !.right_img = default_loader(imageFloder.right[index]),
                    !.dataL = IF imageFloder.load THEN Null
                              ELSE disparity_loader(imageFloder.disp_L[index])]]
    /\ UNCHANGED <<disk, pointData, imageFloder, call>>

\* lines 209-227
TrainCrop(w) ==
    /\ imageFloder # Null
    /\ wk[w].pc = "loaded"
    /\ imageFloder.training
    /\ LET l  == wk[w]
           iw == l.left_img.size[1]
           ih == l.left_img.size[2]
       IN  \E x1 \in Randint(0, iw - TrainW) : \E y1 \in Randint(0, ih - TrainH) :
              LET box == <<x1, y1, x1 + TrainW, y1 + TrainH>>
              IN  wk' = [wk EXCEPT ![w].pc = "done",
                           ![w].ret =
                              [left_img |-> Processed(Crop(l.left_img, box)),
                               right_img |-> Processed(Crop(l.right_img, box)),
                               dataL |-> IF imageFloder.load THEN 0
                                         ELSE NpSlice(Scale256(l.dataL), y1, y1 + TrainH,
                                                      x1, x1 + TrainW),
                               name |-> imageFloder.name[l.index]]]
    /\ UNCHANGED <<disk, pointData, imageFloder, call>>

\* lines 212-213 raising ValueError
TrainCropFail(w) ==
    /\ imageFloder # Null
    /\ wk[w].pc = "loaded"
    /\ imageFloder.training
    /\ \/ Randint(0, wk[w].left_img.size[1] - TrainW) = {}
       \/ Randint(0, wk[w].left_img.size[2] - TrainH) = {}
    /\ wk' = [wk EXCEPT ![w].pc = "error"]
    /\ UNCHANGED <<disk, pointData, imageFloder, call>>

\* lines 229-244
EvalCrop(w) ==
    /\ imageFloder # Null
    /\ wk[w].pc = "loaded"
    /\ ~imageFloder.training
    /\ LET l   == wk[w]
           iw  == l.left_img.size[1]
           ih  == l.left_img.size[2]
           box == EvalBox(iw, ih)
       IN  wk' = [wk EXCEPT ![w].pc = "done",
                    ![w].ret =
                       [left_img |-> Processed(Crop(l.left_img, box)),
                        right_img |-> Processed(Crop(l.right_img, box)),
                        dataL |-> IF imageFloder.load THEN 0
                                  ELSE Scale256(Crop(l.dataL, box)),
                        name |-> imageFloder.name[l.index],
                        w |-> iw, h |-> ih]]
    /\ UNCHANGED <<disk, pointData, imageFloder, call>>

\* ======================================================= the specification
Init == InitPointData \/ InitImageFloder

Next ==
    \/ \E w \in Workers : \E i \in 1..3 : Load(w, i)
    \/ \E w \in Workers : Sample(w)
    \/ \E w \in Workers : SampleFail(w)
    \/ \E w \in Workers : Flip(w)
    \/ \E w \in Workers : Shift(w)
    \/ \E w \in Workers : Finish(w)
    \/ \E w \in Workers : \E i \in 1..2 : ImgLoad(w, i)
    \/ \E w \in Workers : TrainCrop(w)
    \/ \E w \in Workers : TrainCropFail(w)
    \/ \E w \in Workers : EvalCrop(w)
    \/ \E w \in Workers : Release(w)

Spec == Init /\ [][Next]_vars

\* ================================================= calls of the pure helpers
\* one call of angle2class on a drawn angle and class count
InitAngle ==
    /\ disk = Null /\ pointData = Null /\ imageFloder = Null
    /\ wk = [w \in Workers |-> IdleWorker]
    /\ \E angle \in (-TwoPi)..(2 * TwoPi), num_class \in 1..MaxNumClass :
          call = [pc |-> "called", angle |-> angle, num_class |-> num_class, out |-> Null]

CallAngle2class ==
    /\ call.pc = "called"
    /\ call' = [call EXCEPT !.pc = "returned",
                            !.out = angle2class(call.angle, call.num_class)]
    /\ UNCHANGED <<disk, pointData, imageFloder, wk>>

SpecAngle == InitAngle /\ [][CallAngle2class]_vars

\* rotate_pc_along_y on a drawn array by a drawn angle, then by its negative
Coords == (-MaxCoord)..MaxCoord

RotateInputs ==
    LET P == {<<x, y, z, 9>> : x \in Coords, y \in Coords, z \in Coords}
    IN  {<<>>} \cup {<<p>> : p \in P} \cup {<<p, <<2, -3, 5, 7>> >> : p \in P}

InitRotate ==
    /\ disk = Null /\ pointData = Null /\ imageFloder = Null
    /\ wk = [w \in Workers |-> IdleWorker]
    /\ \E pc0 \in RotateInputs, k \in (-4)..4 :
          call = [pc |-> "called", pc0 |-> pc0, theta |-> k * HalfPi,
                  pc1 |-> Null, pc2 |-> Null]

CallRotate ==
    /\ call.pc = "called"
    /\ call' = [call EXCEPT !.pc = "rotated",
                            !.pc1 = rotate_pc_along_y(call.pc0, call.theta)]
    /\ UNCHANGED <<disk, pointData, imageFloder, wk>>

CallRotateBack ==
    /\ call.pc = "rotated"
    /\ call' = [call EXCEPT !.pc = "restored",
                            !.pc2 = rotate_pc_along_y(call.pc1, -call.theta)]
    /\ UNCHANGED <<disk, pointData, imageFloder, wk>>

NextRotate == CallRotate \/ CallRotateBack

SpecRotate == InitRotate /\ [][NextRotate]_vars

\* ================================================================ claims
\* the class count of the call, and one full turn / one bin / half a bin in
\* the scaled units of angle2class
CallTurn == (2 * call.num_class) * TwoPi
CallBin  == 2 * TwoPi
CallHalf == TwoPi

\* C1: for every angle a in [0, 2*pi) and every N >= 1, angle2class(a, N)
\* returns classId in [0, N) and classId*(2*pi/N) + residual congruent to a
\* modulo 2*pi.
C1_Decomposition ==
    (call.pc = "returned" /\ call.angle \in 0..(TwoPi - 1)) =>
        /\ call.out[1] \in 0..(call.num_class - 1)
        /\ (call.out[1] * CallBin + call.out[2]
              - (2 * call.num_class) * call.angle) % CallTurn = 0

\* an angle just below 2*pi came back as class 0 with a negative residual
C1_Witness ==
    /\ call.pc = "returned"
    /\ call.angle = TwoPi - 1
    /\ call.num_class = MaxNumClass
    /\ call.out[1] = 0
    /\ call.out[2] < 0

\* C10: for every angle (wrapped modulo 2*pi) and every N >= 1 the residual
\* lies in [-(pi/N), pi/N); class k is returned exactly for the angles within
\* half a bin of k*(2*pi/N); the angles in the last half bin below 2*pi get
\* class 0 and a negative residual.
C10_ResidualCentred ==
    call.pc = "returned" =>
        LET a == (2 * call.num_class) * (call.angle % TwoPi)
        IN  /\ -CallHalf <= call.out[2]
            /\ call.out[2] < CallHalf
            /\ \A k \in 0..(call.num_class - 1) :
                  (call.out[1] = k) <=>
                      \E m \in {0, 1} :
                          /\ -CallHalf <= a - k * CallBin - m * CallTurn
                          /\ a - k * CallBin - m * CallTurn < CallHalf
            /\ (a >= CallTurn - CallHalf) => (call.out[1] = 0 /\ call.out[2] < 0)

\* a negative angle wrapped into the upper half of a bin other than bin 0:
\* the class is the next one up and the residual is negative
C10_Witness ==
    /\ call.pc = "returned"
    /\ call.angle < 0
    /\ call.num_class > 1
    /\ call.out[1] > 0
    /\ call.out[2] < 0

\* C8: rotate_pc_along_y changes only the x and z columns: the y column, the
\* channels beyond the third and the number of rows are unchanged; rotating
\* by 0 returns the input; rotating by theta and then by -theta returns the
\* original coordinates.
C8_RotateOnlyXZ ==
    (call.pc \in {"rotated", "restored"}) =>
        /\ Len(call.pc1) = Len(call.pc0)
        /\ \A i \in 1..Len(call.pc0) :
              /\ Len(call.pc1[i]) = Len(call.pc0[i])
              /\ call.pc1[i][2] = call.pc0[i][2]
              /\ \A c \in 4..Len(call.pc0[i]) : call.pc1[i][c] = call.pc0[i][c]
        /\ (call.theta = 0 => call.pc1 = call.pc0)
        /\ (call.pc = "restored" => call.pc2 = call.pc0)

\* a two-row array, turned by a quarter turn into something else, is back
C8_Witness ==
    /\ call.pc = "restored"
    /\ call.theta = HalfPi
    /\ Len(call.pc0) = 2
    /\ call.pc1 # call.pc0
    /\ call.pc2 = call.pc0

\* ------------------------------------------------ claims on myPointData
\* what is on disk for the index worker w is fetching
StoredRecord(w) == disk[pointData.points[wk[w].index]]
StoredPoints(w) ==
    IF pointData.lidar THEN StoredRecord(w).point_velo ELSE StoredRecord(w).point_2d
StoredLabels(w) ==
    IF pointData.lidar THEN StoredRecord(w).velo_label ELSE StoredRecord(w).label

PointFetching(w) == pointData # Null /\ wk[w].pc # "idle"

\* the returned arrays have num_point rows, and each row's label is the
\* stored label of the stored point (known by its id channel) in that row
SizeAndLabels(w) ==
    /\ Len(wk[w].ret.points_rot) = pointData.num_point
    /\ Len(wk[w].ret.seg_mask) = pointData.num_point
    /\ \A j \in 1..pointData.num_point :
          \E k \in 1..Len(StoredPoints(w)) :
              /\ wk[w].ret.points_rot[j][4] = StoredPoints(w)[k][4]
              /\ wk[w].ret.seg_mask[j] = StoredLabels(w)[k]

\* C2 as stated: for any stored cloud size the fetch returns an item, with
\* exactly numPoints points and numPoints labels, each label the stored
\* label of the stored point at the same position.
C2_AnyCloudSize ==
    \A w \in Workers :
        PointFetching(w) =>
            /\ wk[w].pc # "error"
            /\ (wk[w].pc = "done" => SizeAndLabels(w))

\* C2 amended: the same for any stored cloud with at least one point.
C2_NonEmptyCloud ==
    \A w \in Workers :
        (PointFetching(w) /\ Len(StoredPoints(w)) >= 1) =>
            /\ wk[w].pc # "error"
            /\ (wk[w].pc = "done" => SizeAndLabels(w))

\* a cloud of one point was sampled to two
C2_Witness ==
    \E w \in Workers :
        /\ PointFetching(w)
        /\ wk[w].pc = "done"
        /\ Len(StoredPoints(w)) = 1
        /\ pointData.num_point = 2
        /\ Len(wk[w].ret.points_rot) = 2

\* the rows the fetch drew, as they are stored
DrawnRows(w) == [j \in 1..Len(wk[w].choice) |-> StoredPoints(w)[wk[w].choice[j]]]

\* C6: the flip is all-or-nothing.  After the flip step (before rotation),
\* if the branch was taken the x of every sampled point and of boxCenter is
\* negated and heading is pi - heading; if not, or with randomFlip false,
\* none of the three has changed.
C6_FlipAllOrNothing ==
    \A w \in Workers :
        (PointFetching(w) /\ wk[w].pc = "flipped") =>
            LET l   == wk[w]
                rec == StoredRecord(w)
                all == /\ \A j \in 1..Len(l.points) : l.points[j][1] = -DrawnRows(w)[j][1]
                       /\ l.datas.box3d_center[1] = -rec.box3d_center[1]
                       /\ l.head = Pi - rec.heading
                none == /\ \A j \in 1..Len(l.points) : l.points[j][1] = DrawnRows(w)[j][1]
                        /\ l.datas.box3d_center[1] = rec.box3d_center[1]
                        /\ l.head = rec.heading
            IN  /\ l.flipped => all
                /\ ~l.flipped => none
                /\ ~pointData.random_flip => ~l.flipped

\* a fetch took the flip branch on a cloud and a box centre off the x = 0 plane
C6_Witness ==
    \E w \in Workers :
        /\ PointFetching(w)
        /\ wk[w].pc = "flipped"
        /\ wk[w].flipped
        /\ Len(wk[w].points) >= 1
        /\ wk[w].points[1][1] # 0
        /\ wk[w].datas.box3d_center[1] # 0

\* C9: with randomShift, after the shift step the one shift value lies in
\* [0.8*dist, 1.2*dist], dist*dist being the sum of the squares of the first
\* two components of the (possibly flipped) boxCenter; that value has been
\* added to the z of every sampled point and of boxCenter; the shift step
\* left x and y of points and boxCenter as the flip step left them.
C9_ShiftClipped ==
    \A w \in Workers :
        (PointFetching(w) /\ wk[w].pc = "shifted" /\ pointData.random_shift) =>
            LET l   == wk[w]
                rec == StoredRecord(w)
                c   == l.datas.box3d_center
                sgn == IF l.flipped THEN -1 ELSE 1
            IN  /\ \E d \in 0..(c[1] * c[1] + c[2] * c[2]) :
                      /\ d * d = c[1] * c[1] + c[2] * c[2]
                      /\ 4 * d <= 5 * l.shift
                      /\ 5 * l.shift <= 6 * d
                /\ \A j \in 1..Len(l.points) :
                      /\ l.points[j][3] = DrawnRows(w)[j][3] + l.shift
                      /\ l.points[j][1] = sgn * DrawnRows(w)[j][1]
                      /\ l.points[j][2] = DrawnRows(w)[j][2]
                /\ c[3] = rec.box3d_center[3] + l.shift
                /\ c[1] = sgn * rec.box3d_center[1]
                /\ c[2] = rec.box3d_center[2]

\* a flipped fetch drew a shift strictly inside the clip range
C9_Witness ==
    \E w \in Workers :
        /\ PointFetching(w)
        /\ wk[w].pc = "shifted"
        /\ pointData.random_shift
        /\ wk[w].flipped
        /\ Len(wk[w].points) >= 1
        /\ 5 * wk[w].shift > 4 * Dist(wk[w].datas.box3d_center)
        /\ 5 * wk[w].shift < 6 * Dist(wk[w].datas.box3d_center)

\* --------------------------------------------- claims on myImageFloder
ImageFetching(w) == imageFloder # Null /\ wk[w].pc # "idle"

\* the left image file of the index worker w is fetching
LeftFile(w) == disk[imageFloder.left[wk[w].index]]

CropW == IF imageFloder.training THEN TrainW ELSE EvalW
CropH == IF imageFloder.training THEN TrainH ELSE EvalH

LargeEnough(w) == LeftFile(w).w >= CropW /\ LeftFile(w).h >= CropH

\* left, right and (when loaded) disparity show the window box, of size sz
SameWindow(ret, box, sz) ==
    /\ ret.left_img.box = box /\ ret.left_img.size = sz
    /\ ret.right_img.box = box /\ ret.right_img.size = sz
    /\ ~imageFloder.load => (ret.dataL.box = box /\ ret.dataL.size = sz)

\* C3: in evaluation mode, for an image at least 1232x368, left, right and
\* (when loaded) disparity are the bottom-right window of exactly 1232x368;
\* in training mode, for an image at least 512x256, all three are one and the
\* same window of exactly 512x256 lying fully inside the image.
C3_SameCropWindow ==
    \A w \in Workers :
        (ImageFetching(w) /\ wk[w].pc = "done" /\ LargeEnough(w)) =>
            LET ret == wk[w].ret
                f   == LeftFile(w)
                b   == ret.left_img.box
            IN  IF imageFloder.training
                THEN /\ SameWindow(ret, b, <<TrainW, TrainH>>)
                     /\ b[3] - b[1] = TrainW /\ b[4] - b[2] = TrainH
                     /\ 0 <= b[1] /\ 0 <= b[2] /\ b[3] <= f.w /\ b[4] <= f.h
                ELSE SameWindow(ret, <<f.w - EvalW, f.h - EvalH, f.w, f.h>>,
                                <<EvalW, EvalH>>)

\* an evaluation fetch with disparity cropped an image wider than the window
C3_Witness ==
    \E w \in Workers :
        /\ ImageFetching(w)
        /\ wk[w].pc = "done"
        /\ ~imageFloder.training
        /\ ~imageFloder.load
        /\ LeftFile(w).w > EvalW
        /\ LeftFile(w).h >= EvalH
        /\ wk[w].ret.dataL.box[1] > 0

\* C4: in evaluation mode the width and height returned last are the
\* post-crop width and height of the left image (1232 and 368 for any input
\* at least that large), not the dimensions of the image as loaded.
C4_ReturnsPostCropSize ==
    \A w \in Workers :
        (ImageFetching(w) /\ wk[w].pc = "done" /\ ~imageFloder.training
            /\ LargeEnough(w)) =>
            /\ wk[w].ret.w = wk[w].ret.left_img.size[1]
            /\ wk[w].ret.h = wk[w].ret.left_img.size[2]
            /\ wk[w].ret.w = EvalW
            /\ wk[w].ret.h = EvalH

\* C5 as stated: in both modes, an image narrower or shorter than the mode's
\* crop window makes the fetch end in an error and return no item.
C5_TooSmallIsError ==
    \A w \in Workers :
        (ImageFetching(w) /\ ~LargeEnough(w)) => wk[w].pc \in {"loaded", "error"}

\* C5 amended: in training mode an image narrower than 512 or shorter than
\* 256 makes the fetch end in an error and return no item; in evaluation
\* mode an image narrower than 1232 or shorter than 368 raises no error: the
\* item is returned, its crops exactly 1232x368 and reaching outside the
\* image (zero filled there).
C5_TooSmallByMode ==
    \A w \in Workers :
        (ImageFetching(w) /\ ~LargeEnough(w)) =>
            IF imageFloder.training
            THEN /\ wk[w].pc \in {"loaded", "error"}
                 /\ wk[w].pc = "loaded" =>
                       (ENABLED TrainCropFail(w) /\ ~ENABLED TrainCrop(w))
            ELSE /\ wk[w].pc \in {"loaded", "done"}
                 /\ wk[w].pc = "loaded" => ENABLED EvalCrop(w)
                 /\ wk[w].pc = "done" =>
                       /\ wk[w].ret.left_img.size = <<EvalW, EvalH>>
                       /\ wk[w].ret.right_img.size = <<EvalW, EvalH>>
                       /\ \/ wk[w].ret.left_img.box[1] < 0
                          \/ wk[w].ret.left_img.box[2] < 0

\* a training fetch of an image too short for the window ended in the error
C5_Witness ==
    \E w \in Workers :
        /\ ImageFetching(w)
        /\ imageFloder.training
        /\ LeftFile(w).w >= TrainW
        /\ LeftFile(w).h < TrainH
        /\ wk[w].pc = "error"

\* ------------------------------------------------------------------- C7
\* the item a point fetch must return, from what is on disk and its draws
ExpectedPointItem(w) ==
    LET l    == wk[w]
        rec  == StoredRecord(w)
        rows == IF l.flipped THEN FlipPoints(DrawnRows(w)) ELSE DrawnRows(w)
        cen  == IF l.flipped THEN FlipCenter(rec.box3d_center) ELSE rec.box3d_center
    IN  PointItem([datas |-> [rec EXCEPT !.box3d_center = [cen EXCEPT ![3] = @ + l.shift]],
                   points |-> ShiftPoints(rows, l.shift),
                   seg_mask |-> [j \in 1..Len(l.choice) |-> StoredLabels(w)[l.choice[j]]],
                   head |-> IF l.flipped THEN Pi - rec.heading ELSE rec.heading,
                   rot_angle |-> HalfPi + rec.frustum_angle],
                  pointData.points[l.index], pointData.num_angle)

\* the item a stereo fetch must return, from the files on disk and the
\* window origin it drew
ExpectedImageItem(w) ==
    LET l   == wk[w]
        lf  == default_loader(imageFloder.left[l.index])
        rf  == default_loader(imageFloder.right[l.index])
        df  == disparity_loader(imageFloder.disp_L[l.index])
        o   == l.ret.left_img.box
        box == IF imageFloder.training
               THEN <<o[1], o[2], o[1] + TrainW, o[2] + TrainH>>
               ELSE <<lf.size[1] - EvalW, lf.size[2] - EvalH, lf.size[1], lf.size[2]>>
        base == [left_img |-> Processed(Crop(lf, box)),
                 right_img |-> Processed(Crop(rf, box)),
                 dataL |-> IF imageFloder.load THEN 0 ELSE Scale256(Crop(df, box)),
                 name |-> imageFloder.name[l.index]]
    IN  IF imageFloder.training THEN base
        ELSE base @@ [w |-> lf.size[1], h |-> lf.size[2]]

ItemsAsExpected ==
    \A w \in Workers :
        wk[w].pc = "done" =>
            wk[w].ret = IF pointData # Null THEN ExpectedPointItem(w)
                        ELSE ExpectedImageItem(w)

\* C7: fetches are stateless.  No step of any fetch, in any interleaving of
\* the workers, changes the files or the fields of either dataset object,
\* and every returned item is always the one that the stored data of its
\* index and its own random draws determine.
C7_FetchesStateless ==
    /\ [][/\ disk' = disk
          /\ pointData' = pointData
          /\ imageFloder' = imageFloder]_vars
    /\ []ItemsAsExpected

\* one worker has returned a flipped item of an index while the other is in
\* the middle of fetching the same index, unflipped
C7_Witness ==
    \E w \in Workers, v \in Workers :
        /\ w # v
        /\ pointData # Null
        /\ wk[w].pc = "done" /\ wk[w].flipped
        /\ wk[v].pc = "flipped" /\ ~wk[v].flipped
        /\ wk[w].index = wk[v].index
        /\ wk[v].datas.box3d_center[1] # 0

====
